---- MODULE Spec2Model ----
(***************************************************************************)
(* Model of the YouTube clipper: the search endpoint (GET), the            *)
(* acquisition endpoint (POST) and the client page (Home) with its         *)
(* loadFFmpeg / fetchVideos / processVideo handlers, the URL cleanup       *)
(* effect and the shared FFmpeg instance with its working files.           *)
(***************************************************************************)
EXTENDS Integers, Sequences, FiniteSets, TLC

VARIABLES
    mounted,            \* "pre" | "mounted" | "unmounted" : life cycle of Home
    status,             \* useState status (NULL or a label)
    error,              \* useState error (NULL or a message)
    videos,             \* useState videos: sequence of items (an item is its id.videoId)
    originalVideoUrl,   \* useState originalVideoUrl (0 = null, else an object URL)
    trimmedVideoUrl,    \* useState trimmedVideoUrl  (0 = null, else an object URL)
    ffmpegRef,          \* ffmpegRef.current (NULL or "FFmpeg")
    engine,             \* the FFmpeg instance: "none" | "loading" | "loaded" | "failed"
    fs,                 \* the FFmpeg instance's files: name -> content
    created,            \* object URLs handed out by URL.createObjectURL
    revoked,            \* object URLs passed to URL.revokeObjectURL
    jobs,               \* processVideo invocations
    searches,           \* fetchVideos invocations
    extPost,            \* last exchange of the acquisition endpoint with another caller
    sampler,            \* one run of the search endpoint's shuffle and slice
    clip                \* one media clip on its way through the trim and encode commands

pageVars == <<mounted, status, error, videos, originalVideoUrl, trimmedVideoUrl,
              ffmpegRef, engine, fs, created, revoked, jobs, searches, extPost>>

vars == <<mounted, status, error, videos, originalVideoUrl, trimmedVideoUrl,
          ffmpegRef, engine, fs, created, revoked, jobs, searches, extPost,
          sampler, clip>>

----------------------------------------------------------------------------
(* Bounds *)
MaxJobs == 2
MaxSearches == 2

JobIds == 1..MaxJobs
SearchIds == 1..MaxSearches

----------------------------------------------------------------------------
(* JavaScript values *)
NULL == "<null>"
UNDEF == "<undefined>"

\* !v for the values an identifier or a key takes
Falsy(v) == v \in {UNDEF, NULL, ""}

NonNull(u) == IF u = 0 THEN {} ELSE {u}

----------------------------------------------------------------------------
(* Acquisition endpoint: POST /api/process-video *)

\* what ytdl(videoUrl, ...) does: throws at the call, or returns a stream that
\* delivers the bytes, ends without bytes, or emits an error later
UpstreamOutcomes == {"throws", "bytes", "empty", "fails"}
UpstreamFailures == {"throws", "fails"}

\* request bodies: request.json() throws, or yields an object with videoId
PostBodies == [parse : {"ok", "throws"}, videoId : {UNDEF, NULL, "", "v1"}]

\* bodies the page never sends: no JSON, or no usable videoId
ExternalBodies ==
    {b \in PostBodies : IF b.parse = "throws" THEN b.videoId = UNDEF
                                               ELSE b.videoId \in {UNDEF, ""}}

\* a response: status, Content-Type, the error of a JSON body, the state of a
\* streamed body, and what the call of ytdl did ("none": it was not called)
JsonError(code, msg, up) ==
    [status |-> code, ctype |-> "application/json", error |-> msg,
     stream |-> "none", upstream |-> up]

VideoResponse(up) ==
    [status |-> 200, ctype |-> "video/mp4", error |-> UNDEF, stream |-> up,
     upstream |-> up]

POST_NoIdCheck(body, up) ==
    IF body.parse = "throws" THEN JsonError(500, "Failed to process video", "none")
    ELSE IF up = "throws" THEN JsonError(500, "Failed to process video", up)
    ELSE VideoResponse(up)

POST(body, up) ==
    IF body.parse = "throws" THEN JsonError(500, "Failed to process video", "none")
    ELSE IF Falsy(body.videoId) THEN JsonError(400, "Video ID is required", "none")
    ELSE IF up = "throws" THEN JsonError(500, "Failed to process video", up)
    ELSE VideoResponse(up)

NoPost == [status |-> 0, ctype |-> "", error |-> UNDEF, stream |-> "none",
           upstream |-> "none"]

ResponseOk(r) == r.status >= 200 /\ r.status <= 299

----------------------------------------------------------------------------
(* Search endpoint: GET /api/collect-videos *)

SliceLimit == 10

\* the provider call: returns a list of items, or throws an error that carries
\* response.data.error.message ("api") or only message ("msg")
MaxItems == 2
ApiKeys == {UNDEF, "", "key"}
\* an item is its id.videoId; the type lets it be missing
UpstreamLists ==
    {[i \in 1..n |-> IF i % 2 = 1 THEN "v1" ELSE UNDEF] : n \in 0..MaxItems}
ProviderOutcomes ==
    [kind : {"ok"}, items : UpstreamLists, shape : {"none"}, msg : {""}]
    \cup [kind : {"throws"}, items : {<<>>}, shape : {"api", "msg"}, msg : {"", "quota"}]

Min(a, b) == IF a <= b THEN a ELSE b

\* the outcomes of [...allVideos].sort(() => Math.random() - 0.5).slice(0, 10):
\* the first min(10, n) places of some rearrangement of the list
Injections(k, n) ==
    {f \in [1..k -> 1..n] : \A a, b \in 1..k : a # b => f[a] # f[b]}

Samples(all) ==
    LET n == Len(all)
        k == Min(SliceLimit, n)
    IN {[i \in 1..k |-> all[f[i]]] : f \in Injections(k, n)}

\* The same three calls taken one at a time, for lists longer than the slice.
\* search.list is asked for maxResults: 50
MaxResults == 50
MaxUpstream == 12

\* lists of every length up to MaxUpstream and of the full length MaxResults;
\* two items are told apart ("v1", "v2"), the others repeat one item ("v0")
SampleInputs ==
    {[i \in 1..n |-> IF i = 1 THEN "v1" ELSE IF i = 2 THEN "v2" ELSE "v0"] :
        n \in (0..MaxUpstream) \cup {MaxResults}}

\* Array.prototype.sort only moves the elements of the array: after a call of
\* the comparator it may exchange the two elements it compared
Exchange_Overwrite(a, i) == [a EXCEPT ![i + 1] = a[i]]

Exchange(a, i) == [a EXCEPT ![i] = a[i + 1], ![i + 1] = a[i]]

\* Array.prototype.slice(0, end)
Slice(a, end) == SubSeq(a, 1, Min(end, Len(a)))

Count(a, x) == Cardinality({i \in DOMAIN a : a[i] = x})

NoSampler == [pc |-> "idle", allVideos |-> <<>>, shuffled |-> <<>>, videos |-> <<>>]

ErrorMessage(prov) ==
    IF prov.shape = "api"
    THEN (IF prov.msg # "" THEN prov.msg ELSE "Failed to fetch videos from YouTube.")
    ELSE IF prov.msg # "" THEN prov.msg
    ELSE "Failed to fetch videos from YouTube."

\* a response: status, whether the JSON body is an array, its items or its
\* message and error, whether the key was there and what the provider call did
GetFailure(key, prov, msg, err) ==
    [status |-> 500, array |-> FALSE, items |-> <<>>, message |-> msg,
     error |-> err, keyOk |-> ~Falsy(key), prov |-> prov]

GetSuccess(items) ==
    [status |-> 200, array |-> TRUE, items |-> items, message |-> UNDEF,
     error |-> UNDEF, keyOk |-> TRUE, prov |-> "ok"]

\* the set of responses GET can give
GET_EmptyOnFailure(key, prov) ==
    IF Falsy(key) \/ prov.kind = "throws"
    THEN {[GetSuccess(<<>>) EXCEPT !.keyOk = ~Falsy(key),
                                   !.prov = IF Falsy(key) THEN "none" ELSE "throws"]}
    ELSE {GetSuccess(s) : s \in Samples(prov.items)}

GET(key, prov) ==
    IF Falsy(key)
    THEN {GetFailure(key, "none", "YouTube API Key is not configured on the server.",
                     UNDEF)}
    ELSE IF prov.kind = "throws"
    THEN {GetFailure(key, "throws", "Error fetching videos from YouTube API.",
                     ErrorMessage(prov))}
    ELSE {GetSuccess(s) : s \in Samples(prov.items)}

NoGet == [status |-> 0, array |-> FALSE, items |-> <<>>, message |-> UNDEF,
          error |-> UNDEF, keyOk |-> FALSE, prov |-> "none"]

----------------------------------------------------------------------------
(* The FFmpeg instance's working files *)

FileNames == {"input.mp4", "trimmed.mp4", "output.mp4"}

\* a file's content: the job that wrote it, the job whose raw bytes it derives
\* from, and whether it holds media data
NoFile == [writer |-> 0, origin |-> 0, data |-> "none"]
File(j, o, d) == [writer |-> j, origin |-> o, data |-> d]

\* a command reads a media file when the file is there and holds data
Readable(f) == f.data = "bytes"

\* a stage of job j reads file f, written by another job
Foreign(j, f) == f # NoFile /\ f.writer # j

\* results of an engine call: the promise resolves (exec: with exit code 0 or
\* with a failure code), or it rejects
WriteOutcomes == {"ok", "throws"}
ExecOutcomes == {"ok", "code", "throws"}
ReadOutcomes == {"ok", "throws"}

----------------------------------------------------------------------------
(* Home: state after the first render, before the effects run *)

IdleJob ==
    [pc |-> "idle", video |-> UNDEF, capOrig |-> 0, capTrim |-> 0,
     resp |-> NoPost, raw |-> "none", trimRes |-> "none", encRes |-> "none"]

IdleSearch == [pc |-> "idle", resp |-> NoGet]
DoneSearch == [pc |-> "done", resp |-> NoGet]

----------------------------------------------------------------------------
(* The two exec calls of processVideo applied to one clip *)

\* '-t', '30'
TrimSeconds == 30
\* -vf fps=30,crop=ih*9/16:ih,scale=720:1280:force_original_aspect_ratio=decrease,
\*     pad=720:1280:(ow-iw)/2:(oh-ih)/2
OutFps == 30
CropNum == 9
CropDen == 16
CanvasW == 720
CanvasH == 1280

MaxScale == 48
MaxChunks == 10

\* frame sizes from 40x40 to 1920x1920, frame rates 30, 30000/1001 and 24 per
\* second, and clips of 150 to 1500 frames
Dims == {40 * k : k \in 1..MaxScale}
FrameRates == {[num |-> 30, den |-> 1], [num |-> 30000, den |-> 1001],
               [num |-> 24, den |-> 1]}
FrameCounts == {150 * k : k \in 1..MaxChunks}

CeilDiv(a, b) == (a + b - 1) \div b
\* lrint: to the nearest integer, ties to the even one
RoundHalfEven(a, b) ==
    LET q == a \div b
        r == a % b
    IN IF 2 * r < b THEN q
       ELSE IF 2 * r > b THEN q + 1
       ELSE IF q % 2 = 0 THEN q ELSE q + 1
\* av_rescale: to the nearest integer, ties upwards
RoundHalfUp(a, b) == (2 * a + b) \div (2 * b)
\* a size on the chroma grid of a 4:2:0 picture
Even(n) == n - (n % 2)

\* -t 30 with -c copy: packets are copied whole; the output stream is closed at
\* the first packet whose timestamp k * den / num is not below 30 seconds, so
\* the packets 0 .. ceil(30 * num / den) - 1 are kept
KeptFrames_NoLimit(frames, rate) == frames

KeptFrames(frames, rate) ==
    Min(frames, CeilDiv(TrimSeconds * rate.num, rate.den))

Invalid == [w |-> 0, h |-> 0]

\* crop=ih*9/16:ih : a window of that size; a window that is empty or larger
\* than the picture is an error of the filter
Crop(f) ==
    LET cw == Even(RoundHalfEven(f.h * CropNum, CropDen))
        ch == Even(f.h)
    IN IF cw <= 0 \/ ch <= 0 \/ cw > f.w \/ ch > f.h
       THEN Invalid
       ELSE [w |-> cw, h |-> ch]

\* scale=720:1280:force_original_aspect_ratio=decrease : the largest size of
\* the picture's aspect ratio inside 720x1280
Scale(f) ==
    LET w == Min(RoundHalfUp(CanvasH * f.w, f.h), CanvasW)
        h == Min(RoundHalfUp(CanvasW * f.h, f.w), CanvasH)
    IN IF w <= 0 \/ h <= 0 THEN Invalid ELSE [w |-> w, h |-> h]

\* pad=720:1280:(ow-iw)/2:(oh-ih)/2 : the picture centred on a 720x1280 canvas;
\* a picture larger than the canvas is an error of the filter
Pad(f) ==
    IF f.w > CanvasW \/ f.h > CanvasH
    THEN Invalid
    ELSE [w |-> CanvasW, h |-> CanvasH]

FilterChain(f) ==
    LET c == Crop(f) IN
    IF c = Invalid THEN Invalid
    ELSE LET s == Scale(c) IN
         IF s = Invalid THEN Invalid ELSE Pad(s)

\* fps=30 : the clip's duration in frames of 1/30 second
FpsFrames(frames, rate) == RoundHalfUp(frames * rate.den * OutFps, rate.num)

NoClip ==
    [pc |-> "idle", w |-> 0, h |-> 0, frames |-> 0, rate |-> [num |-> 1, den |-> 1],
     srcW |-> 0, srcH |-> 0, srcFrames |-> 0, srcRate |-> [num |-> 1, den |-> 1]]

InitPage ==
    /\ mounted = "pre"
    /\ status = NULL
    /\ error = NULL
    /\ videos = <<>>
    /\ originalVideoUrl = 0
    /\ trimmedVideoUrl = 0
    /\ ffmpegRef = NULL
    /\ engine = "none"
    /\ fs = [n \in FileNames |-> NoFile]
    /\ created = {}
    /\ revoked = {}
    /\ jobs = [j \in JobIds |-> IdleJob]
    /\ searches = [s \in SearchIds |-> IdleSearch]
    /\ extPost = [body |-> [parse |-> "ok", videoId |-> UNDEF], resp |-> NoPost]

Init ==
    /\ InitPage
    /\ sampler = NoSampler
    /\ clip = NoClip

\* a state setter: a no-op once the component is gone
Set(cur, new) == IF mounted = "mounted" THEN new ELSE cur

\* URL.createObjectURL: a URL never handed out before
NewUrl == Cardinality(created) + 1

\* the cleanup of the URL effect, run when a dependency changed: it revokes the
\* URLs of the render it was created in
EffectCleanup(o, t, o2, t2) ==
    IF <<o, t>> # <<o2, t2>> THEN NonNull(o) \cup NonNull(t) ELSE {}

----------------------------------------------------------------------------
(* fetchVideos *)

\* fetchVideos(query) up to the fetch of /api/collect-videos
FetchVideos(s) ==
    /\ searches[s].pc = "idle"
    /\ \A t \in SearchIds : t < s => searches[t].pc # "idle"
    /\ status' = Set(status, "Searching videos...")
    /\ searches' = [searches EXCEPT ![s] = [pc |-> "request", resp |-> NoGet]]

\* the mount effect: loadFFmpeg() up to its first await, then fetchVideos('trending')
Mount ==
    /\ mounted = "pre"
    /\ mounted' = "mounted"
    /\ error' = NULL
    /\ ffmpegRef' = "FFmpeg"
    /\ engine' = "loading"
    /\ searches[1].pc = "idle"
    /\ status' = "Searching videos..."
    /\ searches' = [searches EXCEPT ![1] = [pc |-> "request", resp |-> NoGet]]
    /\ UNCHANGED <<sampler, clip, videos, originalVideoUrl, trimmedVideoUrl, fs,
                   created, revoked, jobs, extPost>>

\* loadFFmpeg after ffmpeg.load (or toBlobURL) settles
LoadFFmpegDone(ok) ==
    /\ engine = "loading"
    /\ IF ok
       THEN /\ engine' = "loaded"
            /\ status' = Set(status, NULL)
            /\ error' = error
       ELSE /\ engine' = "failed"
            /\ error' = Set(error, "Failed to load FFmpeg")
            /\ status' = status
    /\ UNCHANGED <<sampler, clip, mounted, videos, originalVideoUrl, trimmedVideoUrl,
                   ffmpegRef, fs, created, revoked, jobs, searches, extPost>>

\* <form onSubmit>, behind the Search button's disabled={!!status}
SubmitSearch(s) ==
    /\ mounted = "mounted"
    /\ Falsy(status)
    /\ FetchVideos(s)
    /\ UNCHANGED <<sampler, clip, mounted, error, videos, originalVideoUrl, trimmedVideoUrl,
                   ffmpegRef, engine, fs, created, revoked, jobs, extPost>>

\* the server answers the search request
ServeGet(s, key, prov) ==
    /\ searches[s].pc = "request"
    /\ \E r \in GET(key, prov) :
          searches' = [searches EXCEPT ![s] = [pc |-> "response", resp |-> r]]
    /\ UNCHANGED <<sampler, clip, mounted, status, error, videos, originalVideoUrl, trimmedVideoUrl,
                   ffmpegRef, engine, fs, created, revoked, jobs, extPost>>

\* fetch() rejects: no response reaches the page
SearchNetFail(s) ==
    /\ searches[s].pc = "request"
    /\ searches' = [searches EXCEPT ![s] = DoneSearch]
    /\ error' = Set(error, "Failed to fetch videos")
    /\ status' = Set(status, NULL)
    /\ UNCHANGED <<sampler, clip, mounted, videos, originalVideoUrl, trimmedVideoUrl,
                   ffmpegRef, engine, fs, created, revoked, jobs, extPost>>

\* fetchVideos after the response: response.json(), Array.isArray, setVideos
ReceiveSearch(s) ==
    /\ searches[s].pc = "response"
    /\ searches' = [searches EXCEPT ![s] = DoneSearch]
    /\ videos' = IF searches[s].resp.array THEN Set(videos, searches[s].resp.items)
                 ELSE videos
    /\ status' = Set(status, NULL)
    /\ UNCHANGED <<sampler, clip, mounted, error, originalVideoUrl, trimmedVideoUrl,
                   ffmpegRef, engine, fs, created, revoked, jobs, extPost>>

----------------------------------------------------------------------------
(* processVideo *)

ActivePcs == {"request", "response", "ingest", "trim", "encode", "read"}

Catch_KeepStatus(j) ==
    /\ error' = Set(error, "Failed to process video")
    /\ status' = status
    /\ jobs' = [jobs EXCEPT ![j] = [IdleJob EXCEPT !.pc = "failed"]]
    /\ UNCHANGED <<originalVideoUrl, trimmedVideoUrl, created, revoked>>

Catch_DropOriginal(j) ==
    /\ error' = Set(error, "Failed to process video")
    /\ status' = Set(status, NULL)
    /\ jobs' = [jobs EXCEPT ![j] = [IdleJob EXCEPT !.pc = "failed"]]
    /\ originalVideoUrl' = Set(originalVideoUrl, 0)
    /\ revoked' = revoked \cup NonNull(originalVideoUrl)
    /\ UNCHANGED <<trimmedVideoUrl, created>>

\* the catch block of processVideo
Catch(j) ==
    /\ error' = Set(error, "Failed to process video")
    /\ status' = Set(status, NULL)
    /\ jobs' = [jobs EXCEPT ![j] = [IdleJob EXCEPT !.pc = "failed"]]
    /\ UNCHANGED <<originalVideoUrl, trimmedVideoUrl, created, revoked>>

\* processVideo(video) up to the fetch of /api/process-video
ProcessVideo(j, video) ==
    /\ jobs[j].pc = "idle"
    /\ \A k \in JobIds : k < j => jobs[k].pc # "idle"
    /\ IF ffmpegRef = NULL \/ Falsy(video)
       THEN /\ jobs' = [jobs EXCEPT ![j].pc = "returned", ![j].video = video]
            /\ UNCHANGED <<status, error>>
       ELSE /\ status' = "Downloading video..."
            /\ error' = NULL
            /\ jobs' = [jobs EXCEPT ![j].pc = "request", ![j].video = video,
                                    ![j].capOrig = originalVideoUrl,
                                    ![j].capTrim = trimmedVideoUrl]

\* onClick of a result card
ClickCard(j, i) ==
    /\ mounted = "mounted"
    /\ i \in 1..Len(videos)
    /\ Falsy(status)
    /\ ProcessVideo(j, videos[i])
    /\ UNCHANGED <<sampler, clip, mounted, videos, originalVideoUrl, trimmedVideoUrl,
                   ffmpegRef, engine, fs, created, revoked, searches, extPost>>

\* the 'Process Random Video' button and processRandomVideo
ClickRandom(j, i) ==
    /\ mounted = "mounted"
    /\ ~(ffmpegRef = NULL \/ Len(videos) = 0 \/ ~Falsy(status))
    /\ Len(videos) > 0
    /\ i \in 1..Len(videos)
    /\ ProcessVideo(j, videos[i])
    /\ UNCHANGED <<sampler, clip, mounted, videos, originalVideoUrl, trimmedVideoUrl,
                   ffmpegRef, engine, fs, created, revoked, searches, extPost>>

\* the server answers the job's request
ServePost(j, up) ==
    /\ jobs[j].pc = "request"
    /\ jobs' = [jobs EXCEPT ![j].pc = "response",
                            ![j].resp = POST([parse |-> "ok", videoId |-> jobs[j].video], up)]
    /\ UNCHANGED <<sampler, clip, mounted, status, error, videos, originalVideoUrl, trimmedVideoUrl,
                   ffmpegRef, engine, fs, created, revoked, searches, extPost>>

\* fetch() rejects: no response reaches the page
DownloadNetFail(j) ==
    /\ jobs[j].pc = "request"
    /\ Catch(j)
    /\ UNCHANGED <<sampler, clip, mounted, videos, ffmpegRef, engine, fs, searches, extPost>>

\* from the response to the call of ffmpeg.writeFile; response.arrayBuffer()
\* rejects when the body stream fails
ReceiveDownload(j) ==
    /\ jobs[j].pc = "response"
    /\ IF ~ResponseOk(jobs[j].resp) \/ jobs[j].resp.stream = "fails"
       THEN Catch(j)
       ELSE /\ created' = created \cup {NewUrl}
            /\ originalVideoUrl' = Set(originalVideoUrl, NewUrl)
            /\ revoked' = revoked \cup NonNull(jobs[j].capOrig)
                   \cup EffectCleanup(originalVideoUrl, trimmedVideoUrl,
                                      Set(originalVideoUrl, NewUrl), trimmedVideoUrl)
            /\ status' = Set(status, "Trimming video...")
            /\ jobs' = [jobs EXCEPT ![j].pc = "ingest", ![j].raw = jobs[j].resp.stream,
                                    ![j].resp = NoPost, ![j].capOrig = 0]
            /\ UNCHANGED <<error, trimmedVideoUrl>>
    /\ UNCHANGED <<sampler, clip, mounted, videos, ffmpegRef, engine, fs, searches, extPost>>

\* ffmpeg.writeFile('input.mp4', ...) settles; on success the trim command is sent
IngestDone(j, out) ==
    /\ jobs[j].pc = "ingest"
    /\ out = "ok" => engine = "loaded"
    /\ IF out = "ok"
       THEN /\ fs' = [fs EXCEPT !["input.mp4"] = File(j, j, jobs[j].raw)]
            /\ jobs' = [jobs EXCEPT ![j].pc = "trim"]
            /\ UNCHANGED <<status, error, originalVideoUrl, trimmedVideoUrl, created,
                           revoked>>
       ELSE Catch(j) /\ fs' = fs
    /\ UNCHANGED <<sampler, clip, mounted, videos, ffmpegRef, engine, searches, extPost>>

\* the trim command settles; unless it rejects, the encode command is sent
TrimDone(j, out) ==
    /\ jobs[j].pc = "trim"
    /\ out = "ok" => Readable(fs["input.mp4"])
    /\ IF out = "throws"
       THEN Catch(j) /\ fs' = fs
       ELSE /\ fs' = IF out = "ok"
                     THEN [fs EXCEPT !["trimmed.mp4"] =
                                File(j, fs["input.mp4"].origin, "bytes")]
                     ELSE fs
            /\ jobs' = [jobs EXCEPT ![j].pc = "encode", ![j].trimRes = out]
            /\ UNCHANGED <<status, error, originalVideoUrl, trimmedVideoUrl, created,
                           revoked>>
    /\ UNCHANGED <<sampler, clip, mounted, videos, ffmpegRef, engine, searches, extPost>>

\* the encode command settles; unless it rejects, the old processed URL is
\* revoked and output.mp4 is requested
EncodeDone(j, out) ==
    /\ jobs[j].pc = "encode"
    /\ out = "ok" => Readable(fs["trimmed.mp4"])
    /\ IF out = "throws"
       THEN Catch(j) /\ fs' = fs
       ELSE /\ fs' = IF out = "ok"
                     THEN [fs EXCEPT !["output.mp4"] =
                                File(j, fs["trimmed.mp4"].origin, "bytes")]
                     ELSE fs
            /\ jobs' = [jobs EXCEPT ![j].pc = "read", ![j].encRes = out,
                                    ![j].capTrim = 0]
            /\ revoked' = revoked \cup NonNull(jobs[j].capTrim)
            /\ UNCHANGED <<status, error, originalVideoUrl, trimmedVideoUrl, created>>
    /\ UNCHANGED <<sampler, clip, mounted, videos, ffmpegRef, engine, searches, extPost>>

\* ffmpeg.readFile('output.mp4') settles; on success the output is published
ReadDone(j, out) ==
    /\ jobs[j].pc = "read"
    /\ out = "ok" => fs["output.mp4"] # NoFile
    /\ IF out = "throws"
       THEN Catch(j)
       ELSE /\ created' = created \cup {NewUrl}
            /\ trimmedVideoUrl' = Set(trimmedVideoUrl, NewUrl)
            /\ revoked' = revoked
                   \cup EffectCleanup(originalVideoUrl, trimmedVideoUrl,
                                      originalVideoUrl, Set(trimmedVideoUrl, NewUrl))
            /\ status' = Set(status, "Ready!")
            /\ jobs' = [jobs EXCEPT ![j] = [IdleJob EXCEPT !.pc = "ready"]]
            /\ UNCHANGED <<error, originalVideoUrl>>
    /\ UNCHANGED <<sampler, clip, mounted, videos, ffmpegRef, engine, fs, searches, extPost>>

----------------------------------------------------------------------------
(* The rest of the environment *)

\* Home unmounts: the URL effect's cleanup runs a last time
Unmount ==
    /\ mounted = "mounted"
    /\ mounted' = "unmounted"
    /\ revoked' = revoked \cup NonNull(originalVideoUrl) \cup NonNull(trimmedVideoUrl)
    /\ UNCHANGED <<sampler, clip, status, error, videos, originalVideoUrl, trimmedVideoUrl,
                   ffmpegRef, engine, fs, created, jobs, searches, extPost>>

\* a caller other than the page posts to the acquisition endpoint
ExternalPost(body, up) ==
    /\ extPost' = [body |-> body, resp |-> POST(body, up)]
    /\ extPost' # extPost
    /\ UNCHANGED <<sampler, clip, mounted, status, error, videos, originalVideoUrl, trimmedVideoUrl,
                   ffmpegRef, engine, fs, created, revoked, jobs,
                   searches>>

Next ==
    \/ Mount
    \/ \E ok \in BOOLEAN : LoadFFmpegDone(ok)
    \/ \E s \in SearchIds : SubmitSearch(s)
    \/ \E s \in SearchIds, key \in ApiKeys, prov \in ProviderOutcomes : ServeGet(s, key, prov)
    \/ \E s \in SearchIds : SearchNetFail(s)
    \/ \E s \in SearchIds : ReceiveSearch(s)
    \/ \E j \in JobIds, i \in 1..MaxItems : ClickCard(j, i)
    \/ \E j \in JobIds, i \in 1..MaxItems : ClickRandom(j, i)
    \/ \E j \in JobIds, up \in UpstreamOutcomes : ServePost(j, up)
    \/ \E j \in JobIds : DownloadNetFail(j)
    \/ \E j \in JobIds : ReceiveDownload(j)
    \/ \E j \in JobIds, out \in WriteOutcomes : IngestDone(j, out)
    \/ \E j \in JobIds, out \in ExecOutcomes : TrimDone(j, out)
    \/ \E j \in JobIds, out \in ExecOutcomes : EncodeDone(j, out)
    \/ \E j \in JobIds, out \in ReadOutcomes : ReadDone(j, out)
    \/ Unmount
    \/ \E body \in ExternalBodies, up \in UpstreamOutcomes : ExternalPost(body, up)

Spec == Init /\ [][Next]_vars

----------------------------------------------------------------------------
(* The shuffle and slice of the search endpoint, one call of GET *)

InitSample ==
    /\ InitPage
    /\ clip = NoClip
    /\ \E all \in SampleInputs :
          sampler = [pc |-> "listed", allVideos |-> all, shuffled |-> <<>>,
                     videos |-> <<>>]

\* [...allVideos]
SpreadCopy ==
    /\ sampler.pc = "listed"
    /\ sampler' = [sampler EXCEPT !.pc = "sort", !.shuffled = sampler.allVideos]
    /\ UNCHANGED <<pageVars, clip>>

\* one call of the comparator () => Math.random() - 0.5 on two neighbours: the
\* sign is random, and on a positive sign the sort exchanges them.  Every
\* rearrangement a sort can produce is a sequence of such exchanges.
SortCompare(i, positive) ==
    /\ sampler.pc = "sort"
    /\ i \in 1..(Len(sampler.shuffled) - 1)
    /\ sampler' = [sampler EXCEPT !.shuffled =
                      IF positive THEN Exchange(sampler.shuffled, i)
                                  ELSE sampler.shuffled]
    /\ UNCHANGED <<pageVars, clip>>

\* .slice(0, 10), the body of the 200 response
SliceTop ==
    /\ sampler.pc = "sort"
    /\ sampler' = [sampler EXCEPT !.pc = "sliced",
                                  !.videos = Slice(sampler.shuffled, SliceLimit)]
    /\ UNCHANGED <<pageVars, clip>>

NextSample ==
    \/ SpreadCopy
    \/ \E i \in 1..(MaxResults - 1), positive \in BOOLEAN : SortCompare(i, positive)
    \/ SliceTop

SpecSample == InitSample /\ [][NextSample]_vars

----------------------------------------------------------------------------
(* The trim and encode commands of processVideo on one readable clip *)

InitClip ==
    /\ InitPage
    /\ sampler = NoSampler
    /\ \E w \in Dims, h \in Dims, n \in FrameCounts, r \in FrameRates :
          clip = [pc |-> "input", w |-> w, h |-> h, frames |-> n, rate |-> r,
                  srcW |-> w, srcH |-> h, srcFrames |-> n, srcRate |-> r]

\* exec(['-i', 'input.mp4', '-t', '30', '-c', 'copy', 'trimmed.mp4'])
TrimExec ==
    /\ clip.pc = "input"
    /\ clip' = [clip EXCEPT !.pc = "trimmed",
                            !.frames = KeptFrames(clip.frames, clip.rate)]
    /\ UNCHANGED <<pageVars, sampler>>

\* exec(['-i', 'trimmed.mp4', '-vf', ..., 'output.mp4'])
EncodeExec ==
    /\ clip.pc = "trimmed"
    /\ LET o == FilterChain([w |-> clip.w, h |-> clip.h]) IN
       IF o = Invalid
       THEN clip' = [clip EXCEPT !.pc = "encodeFailed"]
       ELSE clip' = [clip EXCEPT !.pc = "encoded", !.w = o.w, !.h = o.h,
                                 !.frames = FpsFrames(clip.frames, clip.rate),
                                 !.rate = [num |-> OutFps, den |-> 1]]
    /\ UNCHANGED <<pageVars, sampler>>

NextClip ==
    \/ TrimExec
    \/ EncodeExec

SpecClip == InitClip /\ [][NextClip]_vars

----------------------------------------------------------------------------
(* Steps of a job, as seen in a pair of states *)

\* job j is in flight: started and neither 'Ready!' nor failed
InFlight(j) == jobs[j].pc \in ActivePcs

\* the engine ran job j's trim command (the promise resolved)
TrimRan(j) == jobs[j].pc = "trim" /\ jobs'[j].pc = "encode"

\* the engine ran job j's encode command (the promise resolved)
EncodeRan(j) == jobs[j].pc = "encode" /\ jobs'[j].pc = "read"

\* job j publishes its processed output and reports 'Ready!'
Publishes(j) == jobs[j].pc = "read" /\ jobs'[j].pc = "ready"

\* job j fails: its catch block runs
Fails(j) == InFlight(j) /\ jobs'[j].pc = "failed"

\* the stage label job j set last
StageLabel(j) ==
    IF jobs[j].pc \in {"request", "response"} THEN "Downloading video..."
    ELSE "Trimming video..."

\* the URLs the page holds in state
Held == NonNull(originalVideoUrl) \cup NonNull(trimmedVideoUrl)

----------------------------------------------------------------------------
(* Claims *)

\* C1: within one job the stages are fail-stop: the encode command is sent only
\* after the job's trim command reported success, and output.mp4 is read back
\* only after the job's encode command reported success.
C1_StagesFailStop ==
    \A j \in JobIds :
        /\ jobs[j].pc \in {"encode", "read"} => jobs[j].trimRes = "ok"
        /\ jobs[j].pc = "read" => jobs[j].encRes = "ok"

\* C2: a job publishes its output and reports 'Ready!' only if its raw bytes
\* were non-empty and its trim and its encode command completed without error.
C2_PublishOnlyAfterSuccess ==
    [][\A j \in JobIds :
          Publishes(j) => /\ jobs[j].raw = "bytes"
                          /\ jobs[j].trimRes = "ok"
                          /\ jobs[j].encRes = "ok"]_vars

\* C3: no stage of a job reads a file whose content another job wrote, and the
\* output a job publishes derives from that job's own raw bytes.
C3_StorageIsolated ==
    [][\A j \in JobIds :
          /\ TrimRan(j) => ~Foreign(j, fs["input.mp4"])
          /\ EncodeRan(j) => ~Foreign(j, fs["trimmed.mp4"])
          /\ Publishes(j) => /\ ~Foreign(j, fs["output.mp4"])
                             /\ fs["output.mp4"].origin = j]_vars

\* C4: at most one job is in flight at any time.
C4_SingleFlight == Cardinality({j \in JobIds : InFlight(j)}) <= 1

\* C5: a missing or empty video identifier starts no acquisition: the endpoint
\* answers 400 with a JSON error and does not call ytdl, and processVideo
\* returns without a request and without touching status, error or the URLs.
C5_NoAcquisitionWithoutId ==
    [][/\ (extPost' # extPost /\ extPost'.body.parse = "ok"
                              /\ Falsy(extPost'.body.videoId))
            => /\ extPost'.resp.status = 400
               /\ extPost'.resp.ctype = "application/json"
               /\ ~Falsy(extPost'.resp.error)
               /\ extPost'.resp.upstream = "none"
       /\ \A j \in JobIds :
            /\ (jobs[j].pc = "idle" /\ jobs'[j].pc # "idle" /\ Falsy(jobs'[j].video))
                  => /\ jobs'[j].pc = "returned"
                     /\ UNCHANGED <<status, error, originalVideoUrl, trimmedVideoUrl,
                                    created, revoked, fs>>
            /\ jobs[j].pc = "returned" => jobs'[j] = jobs[j]]_vars

C5_Witness ==
    /\ extPost.resp.status = 400
    /\ extPost.body.videoId = ""
    /\ \E j \in JobIds : jobs[j].pc = "returned" /\ Falsy(jobs[j].video)

\* C6: when the upstream fetch fails for a non-empty identifier, the endpoint
\* answers with a server-error status and a JSON error body.
C6_UpstreamFailureIs500 ==
    \A j \in JobIds :
        (jobs[j].pc = "response" /\ jobs[j].resp.upstream \in UpstreamFailures)
            => /\ jobs[j].resp.status >= 500
               /\ jobs[j].resp.ctype = "application/json"
               /\ ~Falsy(jobs[j].resp.error)

C9_NoUrlLeak ==
    (created \ revoked) \subseteq (IF mounted = "unmounted" THEN {} ELSE Held)

\* C10: the search endpoint answers 200 only when the key is there and the
\* provider call succeeded; without the key it answers 500 with a message and
\* does not call the provider; when the provider throws it answers 500 with
\* message and error.
C10_SearchFailureIs500 ==
    \A s \in SearchIds :
        searches[s].pc = "response" =>
            LET r == searches[s].resp IN
            /\ ~r.keyOk => /\ r.status = 500
                           /\ ~Falsy(r.message)
                           /\ r.prov = "none"
                           /\ ~r.array
            /\ r.prov = "throws" => /\ r.status = 500
                                    /\ ~Falsy(r.message)
                                    /\ ~Falsy(r.error)
                                    /\ ~r.array
            /\ r.status = 200 => r.keyOk /\ r.prov = "ok"

C10_Witness ==
    \E s \in SearchIds :
        /\ searches[s].pc = "response"
        /\ ~searches[s].resp.keyOk
        /\ searches[s].resp.status = 500

SearchInFlight(s) == searches[s].pc \in {"request", "response"}
Quiescent ==
    /\ \A j \in JobIds : ~InFlight(j)
    /\ \A s \in SearchIds : ~SearchInFlight(s)
    /\ engine # "loading"

\* C14: a job whose download yielded zero bytes never writes input.mp4 and
\* never reaches the trim or encode stage: every job past the ingest holds a
\* non-empty raw buffer and input.mp4 never holds an empty one.
C14_NoIngestOfEmpty ==
    /\ \A j \in JobIds :
           jobs[j].pc \in {"trim", "encode", "read"} => jobs[j].raw = "bytes"
    /\ fs["input.mp4"].data # "empty"

\* C15: a search that was answered with an error response, or whose request
\* threw, leaves the error state non-null when it completes.
C15_FailedSearchSurfaced ==
    [][\A s \in SearchIds :
          ( /\ mounted = "mounted"
            /\ SearchInFlight(s)
            /\ searches'[s].pc = "done"
            /\ (searches[s].pc = "request" \/ searches[s].resp.status >= 500) )
          => error' # NULL]_vars

\* C16: no object URL that is the current value of originalVideoUrl or
\* trimmedVideoUrl of the mounted page has been revoked.
C16_HeldUrlsLive ==
    mounted = "mounted" => Held \cap revoked = {}

\* C17: once a job has ended (ready or failed) and no operation is in flight,
\* the status gate is open, so a card click, Process Random Video and a new
\* search are accepted.
C17_GateReopens ==
    ( /\ mounted = "mounted"
      /\ \E j \in JobIds : jobs[j].pc \in {"ready", "failed"}
      /\ Quiescent )
    => Falsy(status)

\* C18: a job is in flight (download requested, or an engine call pending)
\* only when ffmpeg.load has completed successfully.
C18_JobsNeedLoadedEngine ==
    \A j \in JobIds : InFlight(j) => engine = "loaded"

\* C11: a successful search response holds exactly min(10, n) of the n upstream
\* items, every one of them an upstream item, none more often than upstream
\* holds it; 50 upstream items give exactly 10.
C11_SampleWithoutReplacement ==
    sampler.pc = "sliced" =>
        LET all == sampler.allVideos
            out == sampler.videos
        IN /\ Len(out) = Min(10, Len(all))
           /\ \A i \in DOMAIN out :
                 /\ \E k \in DOMAIN all : all[k] = out[i]
                 /\ Count(out, out[i]) <= Count(all, out[i])
           /\ Len(all) = 50 => Len(out) = 10

C11_Witness ==
    /\ sampler.pc = "sliced"
    /\ Len(sampler.allVideos) = 50
    /\ Len(sampler.videos) = 10
    /\ sampler.videos[1] = "v2"
    /\ Count(sampler.videos, "v1") = 0

\* C12: for every input frame size the encode stage succeeds and its output is
\* exactly 720x1280.
C12_EncodeYields720x1280 ==
    clip.pc \in {"encoded", "encodeFailed"} =>
        /\ clip.pc = "encoded"
        /\ clip.w = 720
        /\ clip.h = 1280

\* C13 as stated: the trimmed clip lasts min(d, 30 seconds), and no clip after
\* the trim or the encode lasts longer than 30 seconds.
C13_TrimIsMinOf30 ==
    /\ clip.pc = "trimmed" =>
          IF clip.srcFrames * clip.rate.den <= 30 * clip.rate.num
          THEN clip.frames = clip.srcFrames
          ELSE clip.frames * clip.rate.den = 30 * clip.rate.num
    /\ clip.pc \in {"trimmed", "encoded"} =>
          clip.frames * clip.rate.den <= 30 * clip.rate.num

\* C13 amended: the trim of a readable clip never fails; a clip of at most 30
\* seconds keeps all its frames; a longer clip is cut at the first frame
\* boundary at or after 30 seconds, so it lasts at least 30 seconds and less
\* than 30 seconds plus one frame; the encoded output lasts less than 30
\* seconds plus one source frame plus one output frame.
C13_TrimWithinOneFrame ==
    /\ clip.pc = "trimmed" =>
          IF clip.srcFrames * clip.rate.den <= 30 * clip.rate.num
          THEN clip.frames = clip.srcFrames
          ELSE /\ clip.frames * clip.rate.den >= 30 * clip.rate.num
               /\ clip.frames * clip.rate.den < 30 * clip.rate.num + clip.rate.den
    /\ clip.pc = "encoded" =>
          clip.frames * clip.srcRate.num
             < (30 * clip.srcRate.num + clip.srcRate.den) * 30 + clip.srcRate.num

C13_Witness ==
    /\ clip.pc = "trimmed"
    /\ clip.srcFrames * clip.rate.den > 30 * clip.rate.num
    /\ clip.frames * clip.rate.den > 30 * clip.rate.num
    /\ clip.frames < clip.srcFrames

====
